---- MODULE Spec2Model ----
(***************************************************************************)
(* Editing-session controller of juswriteit (src/src/ui.rs), its note      *)
(* store (src/src/note.rs) and its auto-save scheduler (src/src/utils.rs). *)
(*                                                                         *)
(* Strings are sequences of one-character strings.  Optional values are    *)
(* sequences of length at most one (None == <<>>, Some(x) == <<x>>).       *)
(* Every GTK callback runs to completion on the single main loop, so each  *)
(* callback is one action; signals that a callback emits synchronously     *)
(* (row-selected on removal of the selected row, changed on set_text) run  *)
(* nested inside it, as they do in the program.                            *)
(***************************************************************************)
EXTENDS Integers, Sequences, FiniteSets, TLC

VARIABLES
    files,      \* notes directory: file name -> [content, mtime]
    session,    \* Option<ActiveNote>: the RefCell behind active_note
    timers,     \* live auto-save sources: set of [id, note]
    editor,     \* text of the TextView buffer
    rows,       \* titles of the note rows of the ListBox, in display order
    selected,   \* Option<title>: the ListBox's selected row
    status,     \* text last put on status_label by a callback of the session
    wc,         \* number shown by word_count_label
    clock,      \* filesystem time: last modification time handed out
    ptc,        \* PROGRAMMATIC_TEXT_CHANGE
    borrow,     \* outstanding borrow of the session RefCell
    panicked,   \* a callback panicked: the process is gone
    dialog,     \* Option<[kind, title]>: the modal rename/delete dialog
    log,        \* store operations and error dialogs of the last event
    last        \* the last event: its kind, the row that was clicked, the
                \* session as the auto-save closure left it before refreshing,
                \* and the store call that was set to fail during a row click

\* The functions of the note store and of the controller that take no part in
\* a session are run on their own: a call and what it returned.
VARIABLES
    call,       \* Option<<<function, arguments...>>>: the function that was called
    ret         \* what the call returned

vars == <<files, session, timers, editor, rows, selected, status, wc,
          clock, ptc, borrow, panicked, dialog, log, last, call, ret>>

----------------------------------------------------------------------------
(* Bounds *)

MaxClock == 3
MaxTimers == 2
MaxNotes == 2

----------------------------------------------------------------------------
(* Options and strings *)

None == <<>>
Some(x) == <<x>>
IsSome(o) == o # <<>>
Unwrap(o) == o[1]

IsWs(c) == c \in {" ", "\n", "\t"}

\* str::trim_start
TrimStart(s) ==
    LET Kept == {i \in 1..Len(s) : ~IsWs(s[i])}
    IN  IF Kept = {} THEN <<>>
        ELSE SubSeq(s, CHOOSE i \in Kept : \A j \in Kept : i <= j, Len(s))

\* str::trim_end
TrimEnd(s) ==
    LET Kept == {i \in 1..Len(s) : ~IsWs(s[i])}
    IN  IF Kept = {} THEN <<>>
        ELSE SubSeq(s, 1, CHOOSE i \in Kept : \A j \in Kept : j <= i)

Trim(s) == TrimEnd(TrimStart(s))

\* str::lines: split at "\n"; a final empty line is not produced
RECURSIVE LinesFrom(_)
LinesFrom(s) ==
    LET Breaks == {i \in 1..Len(s) : s[i] = "\n"}
        SplitAt(k) == <<SubSeq(s, 1, k - 1)>> \o LinesFrom(SubSeq(s, k + 1, Len(s)))
    IN  IF s = <<>> THEN <<>>
        ELSE IF Breaks = {} THEN <<s>>
        ELSE SplitAt(CHOOSE i \in Breaks : \A j \in Breaks : i <= j)

Lines(s) == LinesFrom(s)

StartsWith(s, p) == Len(s) >= Len(p) /\ SubSeq(s, 1, Len(p)) = p

\* A Rust String is UTF-8: str::len counts bytes and &s[a..b] cuts at byte
\* offsets.  The characters that take two bytes:
WideChars == {"é"}

Utf8Len(c) == IF c \in WideChars THEN 2 ELSE 1

\* str::len
ByteLen(s) == Len(s) + Cardinality({i \in 1..Len(s) : Utf8Len(s[i]) = 2})

\* &s[0..n]: the characters that fill the first n bytes; None when byte n is
\* past the end or inside a character, where the slice panics
ByteSlice(s, n) ==
    LET Boundary == {k \in 0..Len(s) : ByteLen(SubSeq(s, 1, k)) = n}
    IN  IF Boundary = {} THEN None
        ELSE Some(SubSeq(s, 1, CHOOSE k \in Boundary : TRUE))

\* Digits of a natural number, as format!("{}", n) prints them
Digit(d) == <<"0", "1", "2", "3", "4", "5", "6", "7", "8", "9">>[d + 1]

RECURSIVE Decimal(_)
Decimal(n) == IF n < 10 THEN <<Digit(n)>> ELSE Append(Decimal(n \div 10), Digit(n % 10))

----------------------------------------------------------------------------
(* Program constants *)

TitleMaxLen == 50
TitleCutLen == 47
TitleMinLen == 3

MdExt == <<".", "m", "d">>
Ellipsis == <<".", ".", ".">>
DefaultPrefix == <<"N", "o", "t", "e", " ", "2", "0">>

\* Local::now().format("%Y-%m-%d") on the day of the run
FormattedDate == <<"2", "0", "2", "4", "-", "0", "6", "-", "0", "1">>

----------------------------------------------------------------------------
(* Note store: src/src/note.rs.  A world w is the record of all variables;   *)
(* a store operation takes a world and returns the world after it.          *)

\* notes_dir.join(format!("{}.md", title)); the directory is fixed
PathOf(title) == title \o MdExt

\* Path::file_stem of a file name ending in ".md"
FileStem(path) == SubSeq(path, 1, Len(path) - Len(MdExt))

Exists(w, path) == path \in DOMAIN w.files

\* the record of a store call or of an error dialog in the log of the event
Logged(w, op, path, ok) ==
    [w EXCEPT !.log = Append(@, [op |-> op, path |-> path, ok |-> ok])]

\* fs write of a whole file: the file gets the next modification time
WriteFile(w, path, content) ==
    [w EXCEPT !.clock = w.clock + 1,
              !.files = [p \in DOMAIN w.files \cup {path} |->
                           IF p = path THEN [content |-> content, mtime |-> w.clock + 1]
                           ELSE w.files[p]]]

RemoveFile(w, path) ==
    [w EXCEPT !.files = [p \in DOMAIN w.files \ {path} |-> w.files[p]]]

MoveFile(w, from, to) ==
    [w EXCEPT !.files = [p \in (DOMAIN w.files \ {from}) \cup {to} |->
                           IF p = to THEN w.files[from] ELSE w.files[p]]]

\* Note::new: the result is [ok, note, w]
NoteNew(w, title, out) ==
    LET Made(w1) ==
            [ok |-> TRUE,
             note |-> Some([path |-> PathOf(title), title |-> title, content |-> <<>>,
                            modified_time |-> w1.files[PathOf(title)].mtime]),
             w |-> Logged(w1, "create", PathOf(title), TRUE)]
    IN  IF out # "ok"
        THEN [ok |-> FALSE, note |-> None, w |-> Logged(w, "create", PathOf(title), FALSE)]
        ELSE Made(WriteFile(w, PathOf(title), <<>>))

\* Note::load without the log entry: used by the directory scan as well
LoadFile(w, path, out) ==
    IF out = "ok" /\ Exists(w, path)
    THEN Some([path |-> path, title |-> FileStem(path),
               content |-> w.files[path].content,
               modified_time |-> w.files[path].mtime])
    ELSE None

\* Note::load: the result is [ok, note, w]
NoteLoad(w, path, out) ==
    LET Loaded(n) == [ok |-> IsSome(n), note |-> n, w |-> Logged(w, "load", path, IsSome(n))]
    IN  Loaded(LoadFile(w, path, out))

\* a save that reports success after write_all wrote nothing
NoteSaveWritesNothing(w, note, out) ==
    LET Written(w1) ==
            [ok |-> TRUE,
             note |-> [note EXCEPT !.modified_time = w1.files[note.path].mtime],
             w |-> Logged(w1, "save", note.path, TRUE)]
    IN  IF out = "ok" THEN Written(WriteFile(w, note.path, <<>>))
        ELSE IF out = "write_err"
        THEN [ok |-> FALSE, note |-> note,
              w |-> Logged(WriteFile(w, note.path, <<>>), "save", note.path, FALSE)]
        ELSE [ok |-> FALSE, note |-> note, w |-> Logged(w, "save", note.path, FALSE)]

\* Note::save: File::create truncates or creates the file, write_all fills it,
\* then modified_time is refreshed.  out: "ok", "create_err" (nothing
\* touched) or "write_err" (the file is left truncated).
NoteSave(w, note, out) ==
    LET Written(w1) ==
            [ok |-> TRUE,
             note |-> [note EXCEPT !.modified_time = w1.files[note.path].mtime],
             w |-> Logged(w1, "save", note.path, TRUE)]
    IN  IF out = "ok" THEN Written(WriteFile(w, note.path, note.content))
        ELSE IF out = "write_err"
        THEN [ok |-> FALSE, note |-> note,
              w |-> Logged(WriteFile(w, note.path, <<>>), "save", note.path, FALSE)]
        ELSE [ok |-> FALSE, note |-> note, w |-> Logged(w, "save", note.path, FALSE)]

\* Note::delete
NoteDelete(w, note, out) ==
    IF out = "ok" /\ Exists(w, note.path)
    THEN [ok |-> TRUE, w |-> Logged(RemoveFile(w, note.path), "delete", note.path, TRUE)]
    ELSE [ok |-> FALSE, w |-> Logged(w, "delete", note.path, FALSE)]

\* Note::rename with the move made before its failure is reported
NoteRenameMovesFirst(w, note, new_title, out) ==
    LET Moved(w1) ==
            [ok |-> out = "ok",
             note |-> [note EXCEPT !.path = PathOf(new_title), !.title = new_title,
                                   !.modified_time = w1.files[PathOf(new_title)].mtime],
             w |-> Logged(w1, "rename", note.path, out = "ok")]
    IN  IF \/ Trim(new_title) = <<>>
           \/ (Exists(w, PathOf(new_title)) /\ PathOf(new_title) # note.path)
           \/ ~Exists(w, note.path)
        THEN [ok |-> FALSE, note |-> note, w |-> Logged(w, "rename", note.path, FALSE)]
        ELSE Moved(MoveFile(w, note.path, PathOf(new_title)))

\* Note::rename: the result is [ok, note, w]
NoteRename(w, note, new_title, out) ==
    LET Moved(w1) ==
            [ok |-> TRUE,
             note |-> [note EXCEPT !.path = PathOf(new_title), !.title = new_title,
                                   !.modified_time = w1.files[PathOf(new_title)].mtime],
             w |-> Logged(w1, "rename", note.path, TRUE)]
    IN  IF \/ Trim(new_title) = <<>>
           \/ (Exists(w, PathOf(new_title)) /\ PathOf(new_title) # note.path)
           \/ out # "ok"
           \/ ~Exists(w, note.path)
        THEN [ok |-> FALSE, note |-> note, w |-> Logged(w, "rename", note.path, FALSE)]
        ELSE Moved(MoveFile(w, note.path, PathOf(new_title)))

\* the loop of generate_unique_title leaving after its first round
UniqueTitleFromOnce(w, note_number, title) ==
    IF Exists(w, PathOf(title))
    THEN <<"N", "o", "t", "e", " ">> \o FormattedDate \o <<" ", "(">>
             \o Decimal(note_number + 1) \o <<")">>
    ELSE title

\* Note::generate_unique_title
RECURSIVE UniqueTitleFrom(_, _, _)
UniqueTitleFrom(w, note_number, title) ==
    IF Exists(w, PathOf(title))
    THEN UniqueTitleFrom(w, note_number + 1,
            <<"N", "o", "t", "e", " ">> \o FormattedDate \o <<" ", "(">>
                \o Decimal(note_number + 1) \o <<")">>)
    ELSE title

GenerateUniqueTitle(w) ==
    UniqueTitleFrom(w, 1, <<"N", "o", "t", "e", " ">> \o FormattedDate)

\* the sort of get_all with the comparison the other way round
RECURSIVE SortByMtimeAscending(_, _)
SortByMtimeAscending(w, paths) ==
    LET Oldest(p) == <<FileStem(p)>> \o SortByMtimeAscending(w, paths \ {p})
    IN  IF paths = {} THEN <<>>
        ELSE Oldest(CHOOSE p \in paths :
                        \A q \in paths : w.files[p].mtime <= w.files[q].mtime)

\* Note::get_all: the titles of the notes, most recently modified first
RECURSIVE SortByMtime(_, _)
SortByMtime(w, paths) ==
    LET Newest(p) == <<FileStem(p)>> \o SortByMtime(w, paths \ {p})
    IN  IF paths = {} THEN <<>>
        ELSE Newest(CHOOSE p \in paths :
                        \A q \in paths : w.files[q].mtime <= w.files[p].mtime)

\* get_all giving up on the whole listing when one note fails to load
GetAllLoadingAllOrNothing(w, unreadable) ==
    IF unreadable \cap DOMAIN w.files # {} THEN <<>>
    ELSE SortByMtime(w, DOMAIN w.files)

\* Note::get_all when the files of `unreadable` fail to load: a note that
\* fails to load is reported on stderr and left out
GetAllLoading(w, unreadable) ==
    SortByMtime(w, {p \in DOMAIN w.files :
                      IsSome(LoadFile(w, p, IF p \in unreadable THEN "err" ELSE "ok"))})

GetAll(w) == GetAllLoading(w, {})

----------------------------------------------------------------------------
(* View: the widgets the controller reads and writes (src/src/ui.rs)        *)

\* count_words: the number of maximal runs of non-whitespace characters
RECURSIVE CountFrom(_, _)
CountFrom(s, inWord) ==
    IF s = <<>> THEN 0
    ELSE IF IsWs(Head(s)) THEN CountFrom(Tail(s), FALSE)
    ELSE (IF inWord THEN 0 ELSE 1) + CountFrom(Tail(s), TRUE)

\* a word count that counts the separators
CountWordsAsSeparators(text) == Cardinality({i \in 1..Len(text) : IsWs(text[i])})

CountWords(text) == CountFrom(text, FALSE)

Label(text) == [kind |-> "Label", label |-> text, children |-> <<>>]
Box(children) == [kind |-> "Box", label |-> <<>>, children |-> children]

\* The child of a note row as refresh_note_list builds it: row_outer_box
\* holds row_content_box (title, date, preview labels) and control_box
\* (edit and delete buttons).
RowChild(title) ==
    Box(<<Box(<<Label(title), Label(<<"d">>), Label(<<"p">>)>>),
          Box(<<[kind |-> "Button", label |-> <<>>, children |-> <<>>],
                [kind |-> "Button", label |-> <<>>, children |-> <<>>]>>)>>)

\* widget.downcast::<T>().ok()
Downcast(o, kind) == IF IsSome(o) /\ Unwrap(o).kind = kind THEN o ELSE None

\* widget.first_child()
FirstChild(o) ==
    IF IsSome(o) /\ Unwrap(o).children # <<>> THEN Some(Unwrap(o).children[1]) ELSE None

LabelText(o) == IF IsSome(o) THEN Some(Unwrap(o).label) ELSE None

\* the title extraction of the row-selected handler
SelectedRowTitle(child) ==
    LabelText(Downcast(FirstChild(Downcast(FirstChild(Downcast(Some(child), "Box")),
                                           "Box")), "Label"))

\* the title extraction of select_note_by_title
FoundRowTitle(child) ==
    LabelText(Downcast(FirstChild(Downcast(Some(child), "Box")), "Label"))

\* show_error_dialog
ErrorDialog(w) == Logged(w, "error_dialog", <<>>, FALSE)

----------------------------------------------------------------------------
(* The session cell and the scheduler                                       *)

Panic(w) == [w EXCEPT !.panicked = TRUE]

\* RefCell::borrow_mut
BorrowMut(w) ==
    IF w.panicked THEN w
    ELSE IF w.borrow # "none" THEN Panic(w) ELSE [w EXCEPT !.borrow = "mut"]

\* RefCell::borrow
BorrowShared(w) ==
    IF w.panicked THEN w
    ELSE IF w.borrow = "mut" THEN Panic(w) ELSE [w EXCEPT !.borrow = "shared"]

\* the guard goes out of scope
Release(w) == IF w.panicked THEN w ELSE [w EXCEPT !.borrow = "none"]

\* *active_note.borrow_mut() = value
SetActive(w, value) ==
    IF w.panicked THEN w
    ELSE IF w.borrow # "none" THEN Panic(w) ELSE [w EXCEPT !.session = value]

Active(w) == Unwrap(w.session)

\* glib::SourceId::remove: removing a source that is no longer attached is a
\* programmer error; io.stale is what the build makes of it.
SourceRemove(w, id, io) ==
    IF w.panicked THEN w
    ELSE IF \E t \in w.timers : t.id = id
    THEN [w EXCEPT !.timers = {t \in @ : t.id # id}]
    ELSE IF io.stale = "panic" THEN Panic(w) ELSE w

\* if let Some(source_id) = active.auto_save_source_id.take() { source_id.remove() }
TakeAndRemove(w, io) ==
    IF w.panicked \/ ~IsSome(w.session) THEN w
    ELSE IF IsSome(Active(w).auto_save_source_id)
    THEN SourceRemove([w EXCEPT !.session = Some([Active(w) EXCEPT !.auto_save_source_id = None])],
                      Unwrap(Active(w).auto_save_source_id), io)
    ELSE w

\* The id glib gives a new source: g_source_attach hands out increasing ids,
\* so a source attached later has the larger id.  Ids are opaque: when no id
\* is attached or referred to, the numbering starts again.
SourceIdsInUse(w) ==
    {t.id : t \in w.timers}
        \cup (IF IsSome(w.session) /\ IsSome(Active(w).auto_save_source_id)
              THEN {Unwrap(Active(w).auto_save_source_id)} ELSE {})

NextSourceId(w) ==
    IF SourceIdsInUse(w) = {} THEN 1
    ELSE 1 + CHOOSE i \in SourceIdsInUse(w) : \A j \in SourceIdsInUse(w) : j <= i

\* schedule_auto_save: glib::timeout_add_local with the snapshot moved into
\* the closure; the id of the source is stored in the session
ScheduleAutoSave(w, note_to_save) ==
    [w EXCEPT !.timers = @ \cup {[id |-> NextSourceId(w), note |-> note_to_save]},
              !.session = Some([Active(w) EXCEPT
                                   !.auto_save_source_id = Some(NextSourceId(w))])]

----------------------------------------------------------------------------
(* Callbacks of build_ui and refresh_note_list                              *)

NewActive(path, title, note) ==
    [path |-> path, title |-> title, has_changes |-> FALSE,
     auto_save_source_id |-> None, note |-> note]

\* the first non-blank line of the content, trimmed
RECURSIVE FirstNonBlank(_)
FirstNonBlank(ls) ==
    IF ls = <<>> THEN None
    ELSE IF Trim(Head(ls)) # <<>> THEN Some(Trim(Head(ls))) ELSE FirstNonBlank(Tail(ls))

\* new_potential_title of the changed handler for a line that is long enough:
\* [panic, title], panic when the slice at TitleCutLen bytes is not at a
\* character boundary
PotentialTitle(line) ==
    [panic |-> ByteLen(line) > TitleMaxLen /\ ~IsSome(ByteSlice(line, TitleCutLen)),
     title |-> IF ByteLen(line) <= TitleMaxLen THEN Some(line)
               ELSE IF IsSome(ByteSlice(line, TitleCutLen))
               THEN Some(Unwrap(ByteSlice(line, TitleCutLen)) \o Ellipsis)
               ELSE None]

\* the title computation of the changed handler as a function of the content:
\* nothing is computed for a line of less than TitleMinLen bytes
InlineTitle(content) ==
    LET Of(line) ==
            [panic |-> /\ IsSome(line)
                       /\ ByteLen(Unwrap(line)) >= TitleMinLen
                       /\ PotentialTitle(Unwrap(line)).panic,
             title |-> IF IsSome(line) /\ ByteLen(Unwrap(line)) >= TitleMinLen
                       THEN PotentialTitle(Unwrap(line)).title
                       ELSE None]
    IN  Of(FirstNonBlank(Lines(content)))

\* the (_update_title, _new_title) pair the changed handler computes:
\* Some(new title) when _update_title is set
TitleUpdate(active, content) ==
    LET Candidate(t) ==
            IF ~t.panic /\ IsSome(t.title)
               /\ Unwrap(t.title) # active.title
               /\ Unwrap(t.title) # <<>>
            THEN t.title ELSE None
    IN  IF StartsWith(active.note.title, DefaultPrefix)
        THEN Candidate(InlineTitle(content)) ELSE None

\* the title computation of the changed handler panics
TitlePanics(active, content) ==
    StartsWith(active.note.title, DefaultPrefix) /\ InlineTitle(content).panic

\* the changed handler refreshing the working copy without setting the flag
MarkDirtyContentOnly(w, content) ==
    [w EXCEPT !.session = Some([Active(w) EXCEPT !.note.content = content]),
              !.status = "Editing..."]

\* what the changed handler does to a session: dirty, working copy refreshed
MarkDirty(w, content) ==
    [w EXCEPT !.session = Some([Active(w) EXCEPT !.has_changes = TRUE,
                                                 !.note.content = content]),
              !.status = "Editing..."]

\* the changed handler counting words only when a note is active
BufferChangedCountsActiveOnly(w, io) ==
    LET Arm(w3) == IF w3.panicked THEN w3
                   ELSE IF TitlePanics(Active(w3), Active(w3).note.content) THEN Panic(w3)
                   ELSE Release(ScheduleAutoSave(w3, Active(w3).note))
        Changed(w1) ==
            IF w1.panicked THEN w1
            ELSE IF ~IsSome(w1.session) THEN Release(w1)
            ELSE Arm(TakeAndRemove(MarkDirty([w1 EXCEPT !.wc = CountWords(w1.editor)],
                                             w1.editor), io))
    IN  IF w.panicked \/ w.ptc THEN w
        ELSE Changed(BorrowMut(w))

\* buffer.connect_changed.  The block that renamed the note to the title
\* computed by TitleUpdate is commented out in the source: the title is
\* computed and nothing uses it.
BufferChanged(w, io) ==
    LET Arm(w3) == IF w3.panicked THEN w3
                   ELSE IF TitlePanics(Active(w3), Active(w3).note.content) THEN Panic(w3)
                   ELSE Release(ScheduleAutoSave(w3, Active(w3).note))
        Changed(w1) ==
            IF w1.panicked THEN w1
            ELSE IF ~IsSome(w1.session) THEN Release(w1)
            ELSE Arm(TakeAndRemove(MarkDirty(w1, w1.editor), io))
    IN  IF w.panicked \/ w.ptc THEN w
        ELSE Changed(BorrowMut([w EXCEPT !.wc = CountWords(w.editor)]))

\* GtkTextBuffer::set_text: the old text is deleted, then the new text is
\* inserted; each step that changes the buffer emits "changed"
SetText(w, text, io) ==
    LET Insert(w1) == IF w1.panicked \/ text = <<>> THEN w1
                      ELSE BufferChanged([w1 EXCEPT !.editor = text], io)
    IN  IF w.panicked THEN w
        ELSE Insert(IF w.editor # <<>> THEN BufferChanged([w EXCEPT !.editor = <<>>], io)
                    ELSE w)

\* set_text between PROGRAMMATIC_TEXT_CHANGE = true and = false: the changed
\* handler runs for each step of set_text and returns at its first check, so
\* only the buffer changes
SetTextProgrammatic(w, text, io) ==
    IF w.panicked THEN w ELSE [w EXCEPT !.editor = text, !.ptc = FALSE]

RECURSIVE RowSelected(_, _, _)

\* gtk_list_box_select_row: selecting the selected row again emits nothing
SelectRowWidget(w, title, io) ==
    IF w.selected = Some(title) THEN w
    ELSE RowSelected([w EXCEPT !.selected = Some(title)], Some(title), io)

\* the rows of w.rows, from index i on, searched by select_note_by_title
RECURSIVE FindAndSelect(_, _, _, _)
FindAndSelect(w, i, title_to_find, io) ==
    IF i > Len(w.rows) THEN w
    ELSE IF FoundRowTitle(RowChild(w.rows[i])) = Some(title_to_find)
    THEN SelectRowWidget(w, w.rows[i], io)
    ELSE FindAndSelect(w, i + 1, title_to_find, io)

SelectNoteByTitle(w, title_to_find, io) ==
    IF w.panicked THEN w ELSE FindAndSelect(w, 1, title_to_find, io)

\* refresh_note_list.  gtk_list_box_remove of the selected row emits
\* row-selected with no row, which runs the row-selected handler inside the
\* removal loop; then the rows are rebuilt from Note::get_all.
RefreshNoteList(w, io) ==
    LET Rebuild(w1) == IF w1.panicked THEN w1
                       ELSE [w1 EXCEPT !.rows = GetAll(w1), !.selected = None]
    IN  IF w.panicked THEN w
        ELSE Rebuild(IF IsSome(w.selected)
                     THEN RowSelected([w EXCEPT !.selected = None], None, io)
                     ELSE w)

\* a flush saved the working copy: Ok arm of `match active.note.save()`
FlushSaved(r) ==
    [r.w EXCEPT !.session = Some([Active(r.w) EXCEPT !.note = r.note,
                                                    !.has_changes = FALSE]),
                !.status = "Saved"]

\* the Err arm without its `return`: the handler goes on to the load
SelectFlushFailedProceeds(w) == [w |-> Release(ErrorDialog(w)), proceed |-> TRUE]

\* row-selected handler, Err arm of the flush: report and return
SelectFlushFailed(w) == [w |-> Release(ErrorDialog(w)), proceed |-> FALSE]

\* row-selected handler, first block: save the active note before leaving
\* it.  The result is [w, proceed].
SelectFlush(w, io) ==
    LET Done(w5) == [w |-> w5, proceed |-> ~w5.panicked]
        Saved(r) ==
            IF r.ok
            THEN Done(Release(SelectNoteByTitle(RefreshNoteList(FlushSaved(r), io),
                                                Active(r.w).title, io)))
            ELSE SelectFlushFailed(r.w)
        Cancelled(w1) == IF w1.panicked THEN [w |-> w1, proceed |-> FALSE]
                         ELSE Saved(NoteSave(w1, Active(w1).note, io.save))
        Held(w0) ==
            IF w0.panicked THEN [w |-> w0, proceed |-> FALSE]
            ELSE IF ~IsSome(w0.session) THEN [w |-> Release(w0), proceed |-> TRUE]
            ELSE IF Active(w0).has_changes THEN Cancelled(TakeAndRemove(w0, io))
            ELSE Done(Release(TakeAndRemove(w0, io)))
    IN  Held(BorrowMut(w))

\* row-selected handler: no row, or a row without a title label
SelectNone(w, io) ==
    LET Cleared(w1) == IF w1.panicked THEN w1
                       ELSE [w1 EXCEPT !.status = "Ready", !.wc = 0]
    IN  Cleared(SetActive(SetTextProgrammatic(w, <<>>, io), None))

\* row-selected handler: Note::load of the row's title
SelectLoaded(r, title, io) ==
    LET Shown(w2) == IF w2.panicked THEN w2
                     ELSE [w2 EXCEPT !.status = "Ready",
                                     !.wc = CountWords(Unwrap(r.note).content)]
        Failed(w1) == SetActive(IF w1.panicked THEN w1
                                ELSE [w1 EXCEPT !.status = "Error loading note"], None)
    IN  IF r.ok
        THEN Shown(SetActive(SetTextProgrammatic(r.w, Unwrap(r.note).content, io),
                             Some(NewActive(PathOf(title), title, Unwrap(r.note)))))
        ELSE Failed(SetTextProgrammatic(r.w, <<>>, io))

\* row-selected handler, second block: load the selected note, or clear
SelectLoad(w, row_opt, io) ==
    LET Titled(title) ==
            IF IsSome(title)
            THEN SelectLoaded(NoteLoad(w, PathOf(Unwrap(title)), io.load), Unwrap(title), io)
            ELSE SelectNone(w, io)
    IN  IF IsSome(row_opt) THEN Titled(SelectedRowTitle(RowChild(Unwrap(row_opt))))
        ELSE SelectNone(w, io)

\* list_box.connect_row_selected
RowSelected(w, row_opt, io) ==
    LET Flushed(f) == IF f.proceed THEN SelectLoad(f.w, row_opt, io) ELSE f.w
    IN  IF w.panicked THEN w ELSE Flushed(SelectFlush(w, io))

\* the try_borrow_mut block without `active_inner.auto_save_source_id = None`
AutoSaveUpdateKeepsHandle(w, saved) ==
    IF w.borrow = "none" /\ IsSome(w.session) /\ Active(w).path = saved.path
    THEN [w EXCEPT !.session = Some([Active(w) EXCEPT
                        !.note.modified_time = saved.modified_time,
                        !.has_changes = IF Active(w).note.content = saved.content
                                        THEN FALSE ELSE @])]
    ELSE w

\* the auto-save closure: what the try_borrow_mut block does to the session
AutoSaveUpdate(w, saved) ==
    IF w.borrow = "none" /\ IsSome(w.session) /\ Active(w).path = saved.path
    THEN [w EXCEPT !.session = Some([Active(w) EXCEPT
                        !.note.modified_time = saved.modified_time,
                        !.has_changes = IF Active(w).note.content = saved.content
                                        THEN FALSE ELSE @,
                        !.auto_save_source_id = None])]
    ELSE w

\* the auto-save closure: needs_list_refresh
NeedsListRefresh(w, saved) ==
    /\ w.borrow = "none" /\ IsSome(w.session)
    /\ Active(w).path = saved.path
    /\ Active(w).note.content = saved.content
    /\ Active(w).has_changes

\* the Err arm clearing the dirty flag of the session as if the save had worked
AutoSaveFailedClearsDirty(w) ==
    [w EXCEPT !.status = "Auto-save failed",
              !.session = IF IsSome(w.session)
                          THEN Some([Active(w) EXCEPT !.has_changes = FALSE]) ELSE @]

\* the auto-save closure, Err arm of `match note_to_save.save()`
AutoSaveFailed(w) == [w EXCEPT !.status = "Auto-save failed"]

\* the closure handed to schedule_auto_save, run for source t.  The source
\* is removed from the main context when the closure returns.
AutoSaveCallback(w, t, io) ==
    LET Detach(x) == IF x.panicked THEN x
                     ELSE [x EXCEPT !.timers = {u \in @ : u.id # t.id}]
        Reselect(w5) == IF ~w5.panicked /\ IsSome(w5.session)
                        THEN SelectNoteByTitle(w5, Active(w5).title, io) ELSE w5
        Updated(w2, refresh) ==
            IF refresh
            THEN Reselect(RefreshNoteList([w2 EXCEPT !.last.mid = Some(w2.session)], io))
            ELSE [w2 EXCEPT !.last.mid = Some(w2.session)]
        Saved(r) ==
            IF r.ok
            THEN Updated(AutoSaveUpdate([r.w EXCEPT !.status = "Auto-saved"], r.note),
                         NeedsListRefresh(r.w, r.note))
            ELSE AutoSaveFailed(r.w)
    IN  Detach(Saved(NoteSave(w, t.note, io.save)))

\* the Err arm without its `return`: the handler goes on to create a note
NewFlushFailedProceeds(w) == [w |-> Release(ErrorDialog(w)), proceed |-> TRUE]

\* new_note_button.connect_clicked, Err arm of the flush: report and return
NewFlushFailed(w) == [w |-> Release(ErrorDialog(w)), proceed |-> FALSE]

\* new_note_button.connect_clicked, first block.  The result is [w, proceed].
NewFlush(w, io) ==
    LET Done(w4) == [w |-> w4, proceed |-> ~w4.panicked]
        Saved(r) == IF r.ok THEN Done(Release(RefreshNoteList(FlushSaved(r), io)))
                    ELSE NewFlushFailed(r.w)
        Cancelled(w1) == IF w1.panicked THEN [w |-> w1, proceed |-> FALSE]
                         ELSE Saved(NoteSave(w1, Active(w1).note, io.save))
        Held(w0) ==
            IF w0.panicked THEN [w |-> w0, proceed |-> FALSE]
            ELSE IF ~IsSome(w0.session) THEN [w |-> Release(w0), proceed |-> TRUE]
            ELSE IF Active(w0).has_changes THEN Cancelled(TakeAndRemove(w0, io))
            ELSE Done(Release(TakeAndRemove(w0, io)))
    IN  Held(BorrowMut(w))

\* find_or_create_new_note
FindOrCreateNewNote(w, io) == NoteNew(w, GenerateUniqueTitle(w), io.create)

\* new_note_button.connect_clicked, Ok arm: the session and the labels
NewActivate(w, note, io) ==
    LET Shown(w2) == IF w2.panicked THEN w2
                     ELSE [w2 EXCEPT !.status = "Ready", !.wc = CountWords(note.content)]
    IN  Shown(SetActive(SetTextProgrammatic(w, note.content, io),
                        Some(NewActive(note.path, note.title, note))))

\* new_note_button.connect_clicked, second block
NewCreate(w, io) ==
    LET Created(r) ==
            IF r.ok
            THEN SelectNoteByTitle(RefreshNoteList(NewActivate(r.w, Unwrap(r.note), io), io),
                                   Unwrap(r.note).title, io)
            ELSE ErrorDialog(r.w)
    IN  Created(FindOrCreateNewNote(w, io))

NewNoteClicked(w, io) ==
    LET Flushed(f) == IF f.proceed THEN NewCreate(f.w, io) ELSE f.w
    IN  Flushed(NewFlush(w, io))

\* edit_button.connect_clicked, first block: the shared borrow taken by the
\* outer `if let` is alive while the inner borrow_mut is requested.  The
\* result is [w, proceed, refreshed].
RenameFlush(w, note_title, io) ==
    LET Stop(x) == [w |-> x, proceed |-> FALSE, refreshed |-> FALSE]
        Done(w5) == [w |-> w5, proceed |-> ~w5.panicked, refreshed |-> TRUE]
        Saved(r) ==
            IF r.ok
            THEN Done(Release(SelectNoteByTitle(RefreshNoteList(FlushSaved(r), io),
                                                Active(r.w).title, io)))
            ELSE Stop(Release(ErrorDialog(r.w)))
        Inner(w1) == IF w1.panicked THEN Stop(w1)
                     ELSE Saved(NoteSave(w1, Active(w1).note, io.save))
        Outer(w0) ==
            IF w0.panicked THEN Stop(w0)
            ELSE IF IsSome(w0.session) /\ Active(w0).title = note_title
                    /\ Active(w0).has_changes
            THEN Inner(BorrowMut(w0))
            ELSE [w |-> Release(w0), proceed |-> TRUE, refreshed |-> FALSE]
    IN  Outer(BorrowShared(w))

\* edit_button.connect_clicked: the dialog is shown when the row still has a
\* root window, that is when the list was not rebuilt by the flush
EditClicked(w, note_title, io) ==
    LET Flushed(f) ==
            IF f.proceed /\ ~f.refreshed
            THEN [f.w EXCEPT !.dialog = Some([kind |-> "rename", title |-> note_title])]
            ELSE f.w
    IN  Flushed(RenameFlush(w, note_title, io))

\* the on_confirm closure renaming the session and leaving its working copy
\* under the old title and path
RenameActiveKeepsWorkingCopy(w, original_title, n) ==
    IF ~w.panicked /\ IsSome(w.session) /\ Active(w).title = original_title
    THEN [w EXCEPT !.session = Some([Active(w) EXCEPT
                        !.title = n.title, !.path = n.path,
                        !.note.modified_time = n.modified_time,
                        !.has_changes = FALSE]),
                   !.status = "Renamed"]
    ELSE w

\* the session takes the new title but keeps the old path
RenameActiveKeepsPath(w, original_title, n) ==
    IF ~w.panicked /\ IsSome(w.session) /\ Active(w).title = original_title
    THEN [w EXCEPT !.session = Some([Active(w) EXCEPT
                        !.title = n.title,
                        !.note.title = n.title,
                        !.note.modified_time = n.modified_time,
                        !.has_changes = FALSE]),
                   !.status = "Renamed"]
    ELSE w

\* the on_confirm closure: the session follows the renamed note
RenameActive(w, original_title, n) ==
    IF ~w.panicked /\ IsSome(w.session) /\ Active(w).title = original_title
    THEN [w EXCEPT !.session = Some([Active(w) EXCEPT
                        !.title = n.title, !.path = n.path,
                        !.note.title = n.title, !.note.path = n.path,
                        !.note.modified_time = n.modified_time,
                        !.has_changes = FALSE]),
                   !.status = "Renamed"]
    ELSE w

\* the on_confirm closure handed to show_rename_dialog
RenameConfirm(w, original_title, new_title, io) ==
    LET Renamed(n) ==
            IF n.ok
            THEN SelectNoteByTitle(
                     RefreshNoteList(Release(RenameActive(BorrowMut(n.w), original_title,
                                                          n.note)), io),
                     new_title, io)
            ELSE ErrorDialog(n.w)
        Loaded(r) == IF r.ok THEN Renamed(NoteRename(r.w, Unwrap(r.note), new_title, io.rename))
                     ELSE ErrorDialog(r.w)
    IN  Loaded(NoteLoad(w, PathOf(original_title), io.load))

\* the Rename button without the comparison with the current title
RenameClickedAnyTitle(w, current_title, new_title, io) ==
    IF Trim(new_title) # <<>>
    THEN RenameConfirm([w EXCEPT !.dialog = None], current_title, new_title, io)
    ELSE ErrorDialog(w)

\* show_rename_dialog: rename_button.connect_clicked
RenameClicked(w, current_title, new_title, io) ==
    IF Trim(new_title) # <<>> /\ new_title # current_title
    THEN RenameConfirm([w EXCEPT !.dialog = None], current_title, new_title, io)
    ELSE IF Trim(new_title) = <<>> THEN ErrorDialog(w)
    ELSE [w EXCEPT !.dialog = None]

\* delete_button.connect_clicked
DeleteClicked(w, note_title) ==
    [w EXCEPT !.dialog = Some([kind |-> "delete", title |-> note_title])]

\* the confirm closure handed to show_confirmation_dialog, after
\* dialog.close()
DeleteConfirm(w, note_title, io) ==
    LET Cleared(w2) == IF w2.panicked THEN w2
                       ELSE [w2 EXCEPT !.status = "Ready", !.wc = 0]
        Refreshed(w1) ==
            IF w1.panicked THEN w1
            ELSE IF IsSome(w1.session) /\ Active(w1).title = note_title
            THEN Cleared(SetActive(SetText(Release(w1), <<>>, io), None))
            ELSE Release(w1)
        Deleted(d) == IF d.ok THEN Refreshed(BorrowMut(RefreshNoteList(d.w, io)))
                      ELSE ErrorDialog(d.w)
        Loaded(r) == IF r.ok THEN Deleted(NoteDelete(r.w, Unwrap(r.note), io.delete))
                     ELSE r.w
    IN  Loaded(NoteLoad([w EXCEPT !.dialog = None], PathOf(note_title), io.load))

----------------------------------------------------------------------------
(* The state machine                                                        *)

Cur ==
    [files |-> files, session |-> session, timers |-> timers, editor |-> editor,
     rows |-> rows, selected |-> selected, status |-> status,
     wc |-> wc, clock |-> clock, ptc |-> ptc, borrow |-> borrow,
     panicked |-> panicked, dialog |-> dialog, log |-> log, last |-> last]

\* the world at the start of an event
Begin(ev) ==
    [Cur EXCEPT !.log = <<>>,
                !.last = [ev |-> ev, title |-> None, mid |-> None, fault |-> "none"]]

InBounds(w) ==
    /\ w.clock <= MaxClock
    /\ Cardinality(w.timers) <= MaxTimers
    /\ Cardinality(DOMAIN w.files) <= MaxNotes

\* a panic inside a callback aborts the process: the widgets, the session cell
\* and the attached sources are gone, the notes directory stays as it is
Crashed(w) ==
    [w EXCEPT !.session = None, !.timers = {}, !.editor = <<>>, !.rows = <<>>,
              !.selected = None, !.status = "", !.wc = 0,
              !.ptc = FALSE, !.borrow = "none", !.dialog = None]

Commit(w0) ==
    /\ InBounds(w0)
    /\ LET w == IF w0.panicked THEN Crashed(w0) ELSE w0
       IN  /\ files' = w.files /\ session' = w.session /\ timers' = w.timers
           /\ editor' = w.editor /\ rows' = w.rows /\ selected' = w.selected
           /\ status' = w.status /\ wc' = w.wc /\ clock' = w.clock
           /\ ptc' = w.ptc /\ borrow' = w.borrow
           /\ panicked' = w.panicked /\ dialog' = w.dialog
           /\ log' = w.log /\ last' = w.last
           /\ UNCHANGED <<call, ret>>

\* what the environment does to the store operations of one event: at most
\* one kind of call fails
IO(fault, stale) ==
    [save |-> IF fault = "save_create" THEN "create_err"
              ELSE IF fault = "save_write" THEN "write_err" ELSE "ok",
     load |-> IF fault = "load" THEN "err" ELSE "ok",
     create |-> IF fault = "create" THEN "err" ELSE "ok",
     delete |-> IF fault = "delete" THEN "err" ELSE "ok",
     rename |-> IF fault = "rename" THEN "err" ELSE "ok",
     stale |-> stale]

\* the session holds the id of a source that is no longer attached
StaleHandle ==
    /\ IsSome(session) /\ IsSome(Unwrap(session).auto_save_source_id)
    /\ \A t \in timers : t.id # Unwrap(Unwrap(session).auto_save_source_id)

StaleChoices == IF StaleHandle THEN {"noop", "panic"} ELSE {"noop"}

TitleA == <<"a">>
TitleB == <<"b">>
TextHi == <<"h", "i">>
TextAbc == <<"a", "b", "c", " ", "d">>

\* what the user types or pastes into the editor
EditTexts == {<<>>, TextAbc}

\* what the user enters in the rename dialog
RenameInputs == {<<>>, TitleB}

\* the notes directory when the program starts
InitDirs ==
    {[p \in {PathOf(TitleA)} |-> [content |-> TextHi, mtime |-> 1]]}

MaxMtime(fs) == IF DOMAIN fs = {} THEN 0
                ELSE CHOOSE m \in {fs[p].mtime : p \in DOMAIN fs} :
                        \A p \in DOMAIN fs : fs[p].mtime <= m

Init ==
    /\ files \in InitDirs
    /\ session = None
    /\ timers = {}
    /\ editor = <<>>
    /\ rows = GetAll([files |-> files])
    /\ selected = None
    /\ status = "Ready"
    /\ wc = 0
    /\ clock = MaxMtime(files)
    /\ ptc = FALSE
    /\ borrow = "none"
    /\ panicked = FALSE
    /\ dialog = None
    /\ log = <<>>
    /\ last = [ev |-> "init", title |-> None, mid |-> None, fault |-> "none"]
    /\ call = None
    /\ ret = None

RowTitles == {rows[i] : i \in 1..Len(rows)}

Interactive == ~panicked /\ dialog = None

\* the user clicks a row that is not the selected one
Select ==
    /\ Interactive
    /\ \E t \in RowTitles, fault \in {"none", "save_create", "save_write", "load"},
          stale \in StaleChoices :
         /\ selected # Some(t)
         /\ Commit(RowSelected([Begin("select") EXCEPT !.selected = Some(t),
                                                       !.last.title = Some(t),
                                                       !.last.fault = fault],
                               Some(t), IO(fault, stale)))

\* the user unselects the selected row
Deselect ==
    /\ Interactive
    /\ IsSome(selected)
    /\ \E fault \in {"none", "save_create", "save_write"}, stale \in StaleChoices :
         Commit(RowSelected([Begin("deselect") EXCEPT !.selected = None],
                            None, IO(fault, stale)))

\* the user changes the text of the editor
Edit ==
    /\ Interactive
    /\ \E text \in EditTexts \ {editor}, stale \in StaleChoices :
         Commit(BufferChanged([Begin("edit") EXCEPT !.editor = text],
                              IO("none", stale)))

\* an auto-save source becomes ready: sources of equal delay are dispatched
\* in the order they were attached
AutoSaveFire ==
    /\ ~panicked
    /\ \E t \in timers :
         /\ \A u \in timers : t.id <= u.id
         /\ \/ Commit(AutoSaveCallback(Begin("fire"), t, IO("save_create", "noop")))
            \/ \E fault \in {"none", "save_write"} :
                  Commit(AutoSaveCallback(Begin("fire"), t, IO(fault, "noop")))

NewNote ==
    /\ Interactive
    /\ \E fault \in {"none", "save_create", "save_write", "create"},
          stale \in StaleChoices :
         Commit(NewNoteClicked(Begin("new"), IO(fault, stale)))

RenameRequest ==
    /\ Interactive
    /\ \E t \in RowTitles, fault \in {"none", "save_create", "save_write"} :
         Commit(EditClicked([Begin("rename_click") EXCEPT !.last.title = Some(t)],
                            t, IO(fault, "noop")))

RenameEnter ==
    /\ ~panicked
    /\ IsSome(dialog) /\ Unwrap(dialog).kind = "rename"
    /\ \E new_title \in RenameInputs \cup {Unwrap(dialog).title},
          fault \in {"none", "load", "rename", "save_create"},
          stale \in StaleChoices :
         Commit(RenameClicked([Begin("rename") EXCEPT !.last.title = Some(new_title)],
                              Unwrap(dialog).title, new_title, IO(fault, stale)))

DeleteRequest ==
    /\ Interactive
    /\ \E t \in RowTitles :
         Commit(DeleteClicked(Begin("delete_click"), t))

DeleteAccept ==
    /\ ~panicked
    /\ IsSome(dialog) /\ Unwrap(dialog).kind = "delete"
    /\ \E fault \in {"none", "load", "delete", "save_create", "save_write"},
          stale \in StaleChoices :
         Commit(DeleteConfirm(Begin("delete"), Unwrap(dialog).title,
                              IO(fault, stale)))

\* Cancel in either dialog
DialogCancel ==
    /\ ~panicked
    /\ IsSome(dialog)
    /\ Commit([Begin("cancel") EXCEPT !.dialog = None])

Next ==
    \/ Select
    \/ Deselect
    \/ Edit
    \/ AutoSaveFire
    \/ NewNote
    \/ RenameRequest
    \/ RenameEnter
    \/ DeleteRequest
    \/ DeleteAccept
    \/ DialogCancel

Spec == Init /\ [][Next]_vars

----------------------------------------------------------------------------
(* Properties                                                               *)

\* the log of an event holds a store call `op` with outcome `ok`
OpLogged(l, op, ok) == \E i \in 1..Len(l) : l[i].op = op /\ l[i].ok = ok

\* the log of an event holds a store call `op` on `path`
OpOnPath(l, op, path) == \E i \in 1..Len(l) : l[i].op = op /\ l[i].path = path

Dirty == IsSome(session) /\ Unwrap(session).has_changes

\* the source the main loop dispatches next
NextTimer == CHOOSE t \in timers : \A u \in timers : t.id <= u.id

\* C1: when a row is selected or unselected while the active note is dirty and
\* the save of the flush fails, the active note, its dirty flag and its working
\* copy are what they were, no note was loaded and the editor text is the same.
C1_SelectFailingFlushAborts ==
    [][(/\ last'.ev \in {"select", "deselect"}
        /\ Dirty
        /\ OpLogged(log', "save", FALSE))
       => /\ IsSome(session')
          /\ Unwrap(session').path = Unwrap(session).path
          /\ Unwrap(session').title = Unwrap(session).title
          /\ Unwrap(session').has_changes
          /\ Unwrap(session').note = Unwrap(session).note
          /\ ~OpLogged(log', "load", TRUE) /\ ~OpLogged(log', "load", FALSE)
          /\ editor' = editor]_vars

\* a row other than the dirty active note's was clicked and the flush failed
C1_Witness ==
    /\ last.ev = "select"
    /\ OpLogged(log, "save", FALSE)
    /\ Dirty
    /\ IsSome(selected) /\ Unwrap(selected) # Unwrap(session).title

\* C2: a successful Delete of the dirty active note leaves the session empty,
\* saves nothing to the deleted file and leaves no auto-save source pending
\* for it.
C2_DeleteNeverWrites ==
    [][(/\ last'.ev = "delete"
        /\ Dirty
        /\ IsSome(dialog) /\ Unwrap(dialog).title = Unwrap(session).title
        /\ OpLogged(log', "delete", TRUE))
       => /\ session' = None
          /\ ~OpOnPath(log', "save", Unwrap(session).path)
          /\ \A t \in timers' : t.note.path # Unwrap(session).path]_vars

\* C3: after every Edit of an active note exactly one save of that note is
\* pending, and it carries the text of that edit.
C3_DebounceCoalesces ==
    [][(last'.ev = "edit" /\ IsSome(session'))
       => \E t \in timers' :
             /\ {u \in timers' : u.note.path = Unwrap(session').path} = {t}
             /\ t.note.content = editor']_vars

\* C4: an Edit of a note with a default title whose text yields a title
\* candidate renames the note to the candidate; when the rename succeeds the
\* session and the file carry the candidate.
C4_EditRenamesToCandidate ==
    [][(/\ last'.ev = "edit"
        /\ IsSome(session) /\ IsSome(session')
        /\ IsSome(TitleUpdate(Unwrap(session), editor')))
       => /\ OpLogged(log', "rename", TRUE) \/ OpLogged(log', "rename", FALSE)
          /\ OpLogged(log', "rename", TRUE)
                => /\ Unwrap(session').title = Unwrap(TitleUpdate(Unwrap(session), editor'))
                   /\ Unwrap(session').path = PathOf(Unwrap(session').title)
                   /\ Unwrap(session').path \in DOMAIN files'
          /\ OpLogged(log', "rename", FALSE)
                => Unwrap(session').title = Unwrap(session).title]_vars

\* C5: Invariant B: at most one auto-save source is pending, and a pending
\* source is the one the session holds the handle of.
C5_InvariantB ==
    /\ Cardinality(timers) <= 1
    /\ \A t \in timers :
          IsSome(session) /\ Unwrap(session).auto_save_source_id = Some(t.id)

\* C6: the flush of a dirty active note on Select, New note and the rename
\* click saves the note and leaves none of the sources pending that were
\* pending before it.
C6_FlushCancelsTimer ==
    [][(/\ Dirty
        /\ \/ last'.ev \in {"select", "deselect", "new"}
           \/ last'.ev = "rename_click" /\ last'.title = Some(Unwrap(session).title))
       => /\ OpOnPath(log', "save", Unwrap(session).path)
          /\ timers' \cap timers = {}]_vars

\* C7: a rename click on the dirty active note saves the working copy; when
\* the save succeeds the note is clean and the rename dialog is open, when it
\* fails no dialog opens and the session is what it was.
C7_RenameFlushesFirst ==
    [][(/\ last'.ev = "rename_click"
        /\ Dirty
        /\ last'.title = Some(Unwrap(session).title))
       => \/ /\ OpLogged(log', "save", TRUE)
             /\ IsSome(session') /\ ~Unwrap(session').has_changes
             /\ dialog' = Some([kind |-> "rename", title |-> Unwrap(session).title])
          \/ /\ OpLogged(log', "save", FALSE)
             /\ dialog' = None
             /\ IsSome(session')
             /\ Unwrap(session').title = Unwrap(session).title
             /\ Unwrap(session').has_changes
             /\ Unwrap(session').note = Unwrap(session).note]_vars

\* C8: when New note is clicked while the active note is dirty and the save of
\* the flush fails, no file is created, and the active note, its dirty flag,
\* its working copy and the editor text are what they were.
C8_NewFailingFlushAborts ==
    [][(/\ last'.ev = "new"
        /\ Dirty
        /\ OpLogged(log', "save", FALSE))
       => /\ DOMAIN files' = DOMAIN files
          /\ ~OpLogged(log', "create", TRUE) /\ ~OpLogged(log', "create", FALSE)
          /\ IsSome(session')
          /\ Unwrap(session').path = Unwrap(session).path
          /\ Unwrap(session').title = Unwrap(session).title
          /\ Unwrap(session').has_changes
          /\ Unwrap(session').note = Unwrap(session).note
          /\ editor' = editor]_vars

\* New note was clicked on a dirty note and the flush failed
C8_Witness ==
    /\ last.ev = "new"
    /\ OpLogged(log, "save", FALSE)
    /\ Dirty
    /\ editor = Unwrap(session).note.content /\ editor # <<>>

\* C9: a New note that created its file leaves exactly one file more, under a
\* title no file had, every other file as it was or as the flush saved it, and
\* the session on the new note: clean, without timer handle, editor empty.
C9_NewCreatesFresh ==
    [][(last'.ev = "new" /\ OpLogged(log', "create", TRUE))
       => /\ \E p \in DOMAIN files' \ DOMAIN files :
                /\ DOMAIN files' = DOMAIN files \cup {p}
                /\ files'[p].content = <<>>
                /\ session' = Some(NewActive(p, FileStem(p),
                                     [path |-> p, title |-> FileStem(p), content |-> <<>>,
                                      modified_time |-> files'[p].mtime]))
          /\ \A q \in DOMAIN files :
                \/ files'[q] = files[q]
                \/ /\ Dirty /\ q = Unwrap(session).path
                   /\ files'[q].content = Unwrap(session).note.content
          /\ editor' = <<>>]_vars

\* C10: when the auto-save closure saved its snapshot and the working copy of
\* the same note has the snapshot's content, the closure leaves the session
\* clean, without timer handle and with the modification time of the save;
\* with no row selected that is the session the callback returns with.
C10_FireContentUnchanged ==
    [][(/\ last'.ev = "fire"
        /\ OpLogged(log', "save", TRUE)
        /\ IsSome(session)
        /\ Unwrap(session).path = NextTimer.note.path
        /\ Unwrap(session).note.content = NextTimer.note.content)
       => /\ IsSome(last'.mid) /\ IsSome(Unwrap(last'.mid))
          /\ ~Unwrap(Unwrap(last'.mid)).has_changes
          /\ Unwrap(Unwrap(last'.mid)).auto_save_source_id = None
          /\ Unwrap(Unwrap(last'.mid)).note.modified_time
                = files'[NextTimer.note.path].mtime
          /\ Unwrap(Unwrap(last'.mid)).note.content = NextTimer.note.content
          /\ selected = None => session' = Unwrap(last'.mid)]_vars

\* the closure saved the snapshot of the dirty active note, whose text had not
\* changed since
C10_Witness ==
    /\ last.ev = "fire"
    /\ OpLogged(log, "save", TRUE)
    /\ IsSome(last.mid) /\ IsSome(Unwrap(last.mid))
    /\ ~Unwrap(Unwrap(last.mid)).has_changes
    /\ files[Unwrap(Unwrap(last.mid)).path].content = Unwrap(Unwrap(last.mid)).note.content
    /\ status = "Auto-saved"

\* C11: when the auto-save closure saved its snapshot while the session is on
\* the same note, dirty, with a working copy whose content differs from the
\* snapshot, the closure leaves the session dirty and leaves the session's
\* timer handle as it was.
C11_FireContentDiverged ==
    [][(/\ last'.ev = "fire"
        /\ OpLogged(log', "save", TRUE)
        /\ Dirty
        /\ Unwrap(session).path = NextTimer.note.path
        /\ Unwrap(session).note.content # NextTimer.note.content)
       => /\ IsSome(last'.mid) /\ IsSome(Unwrap(last'.mid))
          /\ Unwrap(Unwrap(last'.mid)).has_changes
          /\ Unwrap(Unwrap(last'.mid)).auto_save_source_id
                = Unwrap(session).auto_save_source_id]_vars

\* C12: when the save of the auto-save closure fails, the session (its dirty
\* flag, its working copy, its timer handle) and the editor text are what they
\* were, the status reads "Auto-save failed", and the only change to the
\* pending sources is that the one that fired is gone.
C12_FireSaveFails ==
    [][(last'.ev = "fire" /\ OpLogged(log', "save", FALSE))
       => /\ session' = session
          /\ editor' = editor
          /\ status' = "Auto-save failed"
          /\ timers' = timers \ {NextTimer}]_vars

\* the save of the dirty active note's own timer failed: the note is still
\* dirty and nothing is pending for it
C12_Witness ==
    /\ last.ev = "fire"
    /\ OpLogged(log, "save", FALSE)
    /\ Dirty
    /\ Unwrap(session).note.content = editor /\ editor # <<>>
    /\ IsSome(Unwrap(session).auto_save_source_id)
    /\ timers = {}
    /\ status = "Auto-save failed"

\* C13: a row selection, an unselection, New note and a confirmed Delete
\* replace the editor text without acting as an Edit: they schedule no
\* auto-save source, a session that is dirty after them was dirty before with
\* the same working copy, and PROGRAMMATIC_TEXT_CHANGE is false when they
\* return.
C13_ProgrammaticNeverEdit ==
    [][(last'.ev \in {"select", "deselect", "new", "delete"})
       => /\ timers' \subseteq timers
          /\ ptc' = FALSE
          /\ (IsSome(session') /\ Unwrap(session').has_changes)
                => /\ Dirty
                   /\ Unwrap(session').note.content = Unwrap(session).note.content]_vars

\* C14: a click on a row whose note exists, in which neither the save of the
\* flush nor the load fails, leaves the session on that note: clean, without
\* timer handle, with the file's content as working copy and as editor text.
C14_SelectSuccess ==
    [][(/\ last'.ev = "select"
        /\ last'.fault = "none"
        /\ PathOf(Unwrap(last'.title)) \in DOMAIN files)
       => /\ PathOf(Unwrap(last'.title)) \in DOMAIN files'
          /\ session' = Some(NewActive(PathOf(Unwrap(last'.title)), Unwrap(last'.title),
                                [path |-> PathOf(Unwrap(last'.title)),
                                 title |-> Unwrap(last'.title),
                                 content |-> files'[PathOf(Unwrap(last'.title))].content,
                                 modified_time |->
                                     files'[PathOf(Unwrap(last'.title))].mtime]))
          /\ editor' = files'[PathOf(Unwrap(last'.title))].content]_vars

\* C15: a click on a row in which the save of the flush does not fail and the
\* load of the row's note fails leaves the session empty, the editor empty and
\* the status "Error loading note"; the file of a dirty active note has the
\* content of its working copy.
C15_SelectLoadFails ==
    [][(/\ last'.ev = "select"
        /\ last'.fault = "load")
       => /\ session' = None
          /\ editor' = <<>>
          /\ status' = "Error loading note"
          /\ Dirty => /\ Unwrap(session).path \in DOMAIN files'
                      /\ files'[Unwrap(session).path].content
                            = Unwrap(session).note.content]_vars

\* C16: an Edit while no note is active leaves the session empty, schedules
\* no auto-save source, calls no store operation and changes no file, and the
\* word count shown is the number of words of the new editor text.
C16_EditInEmpty ==
    [][(last'.ev = "edit" /\ session = None)
       => /\ session' = None
          /\ timers' = timers
          /\ log' = <<>>
          /\ files' = files
          /\ wc' = CountWords(editor')]_vars

\* text was typed while no note was active
C16_Witness ==
    /\ last.ev = "edit"
    /\ session = None
    /\ editor = TextAbc
    /\ wc = 2
    /\ timers = {}

\* C17: a confirmed Delete of a note other than the active one, when the
\* removal succeeds, removes exactly that note's file, rebuilds the list from
\* the directory and leaves the session, the pending sources and the editor
\* text as they were; when the removal fails, the files, the session, the
\* pending sources and the editor text are as they were.
C17_DeleteNonActiveFramed ==
    [][(/\ last'.ev = "delete"
        /\ IsSome(dialog) /\ IsSome(session)
        /\ Unwrap(dialog).title # Unwrap(session).title)
       => /\ OpLogged(log', "delete", TRUE)
             => /\ DOMAIN files' = DOMAIN files \ {PathOf(Unwrap(dialog).title)}
                /\ \A p \in DOMAIN files' : files'[p] = files[p]
                /\ rows' = GetAll([files |-> files'])
                /\ session' = session
                /\ timers' = timers
                /\ editor' = editor
          /\ OpLogged(log', "delete", FALSE)
             => /\ files' = files
                /\ session' = session
                /\ timers' = timers
                /\ editor' = editor]_vars

C19_RenameUpdatesIdentityOnly ==
    [][(/\ last'.ev = "rename"
        /\ OpLogged(log', "rename", TRUE)
        /\ IsSome(session) /\ IsSome(dialog))
       => IF Unwrap(session).title = Unwrap(dialog).title
          THEN /\ IsSome(session')
               /\ Unwrap(session').path \in DOMAIN files' \ DOMAIN files
               /\ Unwrap(session').path = PathOf(Unwrap(session').title)
               /\ Unwrap(session').note.content = Unwrap(session).note.content
               /\ Unwrap(session').has_changes = Unwrap(session).has_changes
          ELSE session' = session]_vars

----------------------------------------------------------------------------
(* Liveness.  The GLib main loop dispatches a timeout source once its time  *)
(* has come, so an auto-save source that stays attached is run: weak        *)
(* fairness of AutoSaveFire.  Nothing obliges the user to act.              *)

LiveSpec == Init /\ [][Next]_vars /\ WF_vars(AutoSaveFire)

\* the last event was an Edit that set the content of the active note to c
EditedTo(c) ==
    /\ last.ev = "edit"
    /\ Dirty
    /\ Unwrap(session).note.content = c

\* the quiet period after that Edit is over: another event than an auto-save
\* callback happened, or a save of the active note failed
QuietBroken(c) ==
    \/ panicked
    \/ last.ev \notin {"edit", "fire"}
    \/ last.ev = "edit" /\ ~EditedTo(c)
    \/ \E i \in 1..Len(log) :
          /\ log[i].op = "save" /\ ~log[i].ok
          /\ IsSome(session) => log[i].path = Unwrap(session).path

\* an auto-save callback left the session clean with working copy c, the file
\* of its note holds exactly c, and no dirty note is active
SavedClean(c) ==
    /\ last.ev = "fire"
    /\ IsSome(last.mid) /\ IsSome(Unwrap(last.mid))
    /\ ~Unwrap(Unwrap(last.mid)).has_changes
    /\ Unwrap(Unwrap(last.mid)).note.content = c
    /\ Unwrap(Unwrap(last.mid)).path \in DOMAIN files
    /\ files[Unwrap(Unwrap(last.mid)).path].content = c
    /\ ~Dirty

\* C21: after an Edit that set the active note's content to c, if nothing but
\* auto-save callbacks happens and no save of the note fails, eventually a
\* callback has saved the note: its file holds exactly c and no dirty note is
\* active.
C21_QuietLeadsToSaved ==
    \A c \in EditTexts : EditedTo(c) ~> (QuietBroken(c) \/ SavedClean(c))

\* the timer of the last Edit fired after a quiet period: the file holds the
\* typed text and the note is clean
C21_Witness ==
    /\ last.ev = "fire"
    /\ OpLogged(log, "save", TRUE)
    /\ IsSome(session) /\ ~Unwrap(session).has_changes
    /\ editor = TextAbc
    /\ Unwrap(session).note.content = TextAbc
    /\ files[Unwrap(session).path].content = TextAbc
    /\ timers = {}

\* ------------------------------------------------------------------
\* C22  Invariant A: whenever the session holds an auto-save timer
\* handle, the session's has_changes flag is set.
C22_InvariantA ==
    (IsSome(session) /\ IsSome(Unwrap(session).auto_save_source_id))
        => Unwrap(session).has_changes

\* an edit has armed a timer whose handle the dirty session holds
C22_Witness ==
    /\ last.ev = "edit"
    /\ IsSome(session)
    /\ IsSome(Unwrap(session).auto_save_source_id)
    /\ Unwrap(session).has_changes
    /\ \E t \in timers : Some(t.id) = Unwrap(session).auto_save_source_id

----------------------------------------------------------------------------
(* The functions of the store and of the view on their own: a call action   *)
(* applies one function to an input and records the input and the result.   *)

\* Note::generate_title_from_content: [panic, title]; the length is cut
\* before it is tested against TitleMinLen
GenerateTitleFromContent(content) ==
    LET Of(line) ==
            [panic |-> /\ IsSome(line)
                       /\ ByteLen(Unwrap(line)) > TitleMaxLen
                       /\ ~IsSome(ByteSlice(Unwrap(line), TitleCutLen)),
             title |-> IF ~IsSome(line) THEN None
                       ELSE IF ByteLen(Unwrap(line)) > TitleMaxLen
                       THEN (IF IsSome(ByteSlice(Unwrap(line), TitleCutLen))
                             THEN Some(Unwrap(ByteSlice(Unwrap(line), TitleCutLen))
                                          \o Ellipsis)
                             ELSE None)
                       ELSE IF ByteLen(Unwrap(line)) < TitleMinLen THEN None
                       ELSE line]
    IN  Of(FirstNonBlank(Lines(content)))

\* the largest number a default title of the directory carries
MaxSuffix == 3
\* the latest modification time of a listed directory
MaxStamp == 3

\* format!("Note {}", date) for n = 1 and format!("Note {} ({})", date, n)
NumberedTitle(n) ==
    IF n = 1 THEN <<"N", "o", "t", "e", " ">> \o FormattedDate
    ELSE <<"N", "o", "t", "e", " ">> \o FormattedDate \o <<" ", "(">>
             \o Decimal(n) \o <<")">>

TitleC == <<"c">>

\* a directory of empty notes with the given titles
DirOf(titles) == [p \in {PathOf(t) : t \in titles} |-> [content |-> <<>>, mtime |-> 1]]

\* the directories generate_unique_title is called on
TitleDirs == {DirOf(ts) : ts \in SUBSET ({NumberedTitle(n) : n \in 1..MaxSuffix} \cup {TitleA})}

\* the directories Note::new is called on
NewDirs == {DirOf(ts) : ts \in SUBSET {<<>>, TitleA}}

\* the titles Note::new is called with
NewTitles == {<<>>, TitleA, TitleB}

\* the directories Note::get_all is called on
ListDirs ==
    UNION {[ps -> [content : {<<>>}, mtime : 1..MaxStamp]] :
              ps \in SUBSET {PathOf(TitleA), PathOf(TitleB), PathOf(TitleC)}}

\* n times the character c
Rep(c, n) == [i \in 1..n |-> c] \o <<>>

ScenarioText ==
    <<"H", "e", "l", "l", "o", " ", "w", "o", "r", "l", "d", " ", "t",
      "h", "i", "s", " ", "i", "s", " ", "a", " ", "l", "o", "n", "g",
      "e", "r", " ", "f", "i", "r", "s", "t", " ", "l", "i", "n", "e",
      " ", "u", "s", "e", "d", " ", "a", "s", " ", "a", " ", "t", "i",
      "t", "l", "e", " ", "c", "a", "n", "d", "i", "d", "a", "t", "e">>

\* the editor texts the changed handler counts
CountTexts ==
    {<<>>, TextHi, TextAbc, ScenarioText,
     <<" ", "a", " ", " ", "b", " ">>, <<"a", "\n", "b", "\t", "c">>}

\* the contents a title is derived from
TitleContents ==
    {<<>>, <<" ", "\n", " ">>, <<"a", "b">>, <<"a", "b", "c">>,
     <<" ", "\n", " ", "a", "b", "c", " ", "\n", "x", "y", "z">>,
     Rep("x", TitleMaxLen), Rep("x", TitleMaxLen + 1),
     Rep("x", TitleCutLen) \o <<" ">> \o Rep("y", 17),
     ScenarioText,
     Rep("é", 2), Rep("é", 25), Rep("é", 26), <<"a">> \o Rep("é", 25)}

\* the state of a program that was started on directory dir
FnWorld(dir) == [Cur EXCEPT !.files = dir, !.clock = MaxMtime(dir), !.log = <<>>]

SessionVars ==
    <<files, session, timers, editor, rows, selected, status, wc, clock, ptc,
      borrow, panicked, dialog, log, last>>

GenerateUniqueTitleCall ==
    \E dir \in TitleDirs :
        /\ call' = Some([fn |-> "generate_unique_title", dir |-> dir])
        /\ ret' = Some(GenerateUniqueTitle(FnWorld(dir)))
        /\ UNCHANGED SessionVars

\* what a call of Note::new leaves: [ok, note, files]
NewResult(r) == [ok |-> r.ok, note |-> r.note, files |-> r.w.files]

NoteNewCall ==
    \E dir \in NewDirs, title \in NewTitles, out \in {"ok", "err"} :
        /\ call' = Some([fn |-> "new", dir |-> dir, title |-> title, out |-> out])
        /\ ret' = Some(NewResult(NoteNew(FnWorld(dir), title, out)))
        /\ UNCHANGED SessionVars

GetAllCall ==
    \E dir \in ListDirs :
        \E unreadable \in SUBSET DOMAIN dir :
            /\ call' = Some([fn |-> "get_all", dir |-> dir, unreadable |-> unreadable])
            /\ ret' = Some(GetAllLoading(FnWorld(dir), unreadable))
            /\ UNCHANGED SessionVars

\* the changed handler on an editor that holds text
ChangedCall ==
    \E text \in CountTexts :
        /\ call' = Some([fn |-> "changed", text |-> text])
        /\ ret' = Some(BufferChanged([Cur EXCEPT !.editor = text], IO("none", "noop")).wc)
        /\ UNCHANGED SessionVars

TitleFromContentCall ==
    \E content \in TitleContents :
        /\ call' = Some([fn |-> "title", content |-> content])
        /\ ret' = Some([note |-> GenerateTitleFromContent(content),
                        ui |-> InlineTitle(content)])
        /\ UNCHANGED SessionVars

FnNext ==
    \/ GenerateUniqueTitleCall
    \/ NoteNewCall
    \/ GetAllCall
    \/ ChangedCall
    \/ TitleFromContentCall

FnSpec == Init /\ [][FnNext]_vars

\* the recorded call is a call of fn
IsCall(fn) == IsSome(call) /\ Unwrap(call).fn = fn

\* ------------------------------------------------------------------
\* C23  generate_unique_title returns "Note D" when no note has that
\* title, and otherwise "Note D (n)" for the smallest n >= 2 that no note
\* has; the result is never the title of a note of the directory.  The
\* result is fixed by the set of titles and the date.
C23_UniqueTitle ==
    IsCall("generate_unique_title") =>
        LET taken == {FileStem(p) : p \in DOMAIN Unwrap(call).dir}
            title == Unwrap(ret)
        IN  /\ title \notin taken
            /\ NumberedTitle(1) \notin taken => title = NumberedTitle(1)
            /\ NumberedTitle(1) \in taken =>
                  \E n \in 2..(MaxSuffix + 1) :
                      /\ title = NumberedTitle(n)
                      /\ \A m \in 2..(n - 1) : NumberedTitle(m) \in taken

\* "Note D" and "Note D (2)" are there and the result is "Note D (3)"
C23_Witness ==
    /\ IsCall("generate_unique_title")
    /\ {NumberedTitle(1), NumberedTitle(2)} \subseteq
           {FileStem(p) : p \in DOMAIN Unwrap(call).dir}
    /\ Unwrap(ret) = NumberedTitle(3)
    /\ Unwrap(ret) = <<"N", "o", "t", "e", " ", "2", "0", "2", "4", "-", "0", "6",
                      "-", "0", "1", " ", "(", "3", ")">>

\* ------------------------------------------------------------------
\* C24  When the title entered in the rename dialog is the title the note
\* already has, no collision error is raised: the dialog closes, the store
\* is not called, no error dialog is shown, and the files and the session
\* stay as they were.
C24_RenameToCurrentTitle ==
    [][(/\ IsSome(dialog) /\ Unwrap(dialog).kind = "rename"
        /\ last'.ev = "rename"
        /\ last'.title = Some(Unwrap(dialog).title))
       => (/\ dialog' = None
           /\ log' = <<>>
           /\ ~panicked'
           /\ files' = files
           /\ session' = session
           /\ rows' = rows)]_vars

\* the current title of an existing note was entered and the dialog closed
\* without a store call
C24_Witness ==
    /\ last.ev = "rename"
    /\ IsSome(last.title)
    /\ Unwrap(last.title) # <<>>
    /\ PathOf(Unwrap(last.title)) \in DOMAIN files
    /\ log = <<>>
    /\ dialog = None

\* the listing get_all gives for a directory
ListingOf(fs) == GetAll([files |-> fs])

\* the place of a title in a listing
PlaceOf(listing, title) == CHOOSE i \in 1..Len(listing) : listing[i] = title

\* a listing holds each note of the directory once, later modified ones first
RecencyOrdered(listing, fs) ==
    /\ Len(listing) = Cardinality(DOMAIN fs)
    /\ {PathOf(listing[i]) : i \in 1..Len(listing)} = DOMAIN fs
    /\ \A i, j \in 1..Len(listing) :
          i < j => fs[PathOf(listing[i])].mtime >= fs[PathOf(listing[j])].mtime

\* ------------------------------------------------------------------
\* C25  Note::get_all lists the notes by modification time, latest first;
\* and after an event that saved note X (a flush or an auto-save), X, if
\* still there, is listed before every note modified strictly earlier.
C25_RecencyOrder ==
    /\ [] RecencyOrdered(ListingOf(files), files)
    /\ [][\A i \in 1..Len(log') :
             (log'[i].op = "save" /\ log'[i].ok /\ log'[i].path \in DOMAIN files')
             => \A q \in DOMAIN files' :
                   files'[q].mtime < files'[log'[i].path].mtime
                   => PlaceOf(ListingOf(files'), FileStem(log'[i].path))
                          < PlaceOf(ListingOf(files'), FileStem(q))]_vars

\* an auto-save wrote a note that was the older of two and is now listed first
C25_Witness ==
    /\ last.ev = "fire"
    /\ Cardinality(DOMAIN files) = 2
    /\ \E i \in 1..Len(log) :
          /\ log[i].op = "save" /\ log[i].ok
          /\ log[i].path \in DOMAIN files
          /\ ListingOf(files)[1] = FileStem(log[i].path)
          /\ \E q \in DOMAIN files :
                /\ files[q].mtime < files[log[i].path].mtime
                /\ files[q].mtime > 1
                /\ ListingOf(files)[2] = FileStem(q)

\* ------------------------------------------------------------------
\* C26  Note::new called with an empty title returns an error and creates
\* no file.
C26_CreateRejectsEmpty ==
    (IsCall("new") /\ Unwrap(call).title = <<>>)
        => /\ ~Unwrap(ret).ok
           /\ Unwrap(ret).files = Unwrap(call).dir

\* ------------------------------------------------------------------
\* C27  When some eligible files fail to load, Note::get_all still gives a
\* listing: it holds each note that loaded once, latest modified first;
\* the notes that failed are left out and no other note is.
C27_ListToleratesFailure ==
    IsCall("get_all") =>
        LET dir == Unwrap(call).dir
            loaded == DOMAIN dir \ Unwrap(call).unreadable
            listing == Unwrap(ret)
        IN  RecencyOrdered(listing, [p \in loaded |-> dir[p]])

\* one of three notes fails to load and the two others are listed, the
\* later modified one first
C27_Witness ==
    /\ IsCall("get_all")
    /\ Cardinality(DOMAIN Unwrap(call).dir) = 3
    /\ Unwrap(call).unreadable = {PathOf(TitleB)}
    /\ Unwrap(call).dir[PathOf(TitleA)].mtime < Unwrap(call).dir[PathOf(TitleC)].mtime
    /\ Unwrap(ret) = <<TitleC, TitleA>>

\* the word starts of a text: the characters that are not whitespace and
\* follow whitespace or start the text
WordStarts(text) ==
    {i \in 1..Len(text) : ~IsWs(text[i]) /\ (i = 1 \/ IsWs(text[i - 1]))}

\* ------------------------------------------------------------------
\* C28  The word count the changed handler reports is the number of
\* whitespace-separated words of the editor text; for the text "Hello world
\* this is a longer first line used as a title candidate" it is 13.
C28_WordCount ==
    IsCall("changed") =>
        /\ Unwrap(ret) = Cardinality(WordStarts(Unwrap(call).text))
        /\ Unwrap(call).text = ScenarioText => Unwrap(ret) = 13

\* C28 as stated: the word count reported for that text is 12
C28_WordCountTwelve ==
    (IsCall("changed") /\ Unwrap(call).text = ScenarioText) => Unwrap(ret) = 12

\* the changed handler has counted the words of the scenario text
C28_Witness ==
    /\ IsCall("changed")
    /\ Unwrap(call).text = ScenarioText
    /\ Unwrap(ret) = 13

\* the candidate title of a content when lengths are counted in characters
CandidateByChars(content) ==
    LET Of(line) ==
            IF ~IsSome(line) \/ Len(Unwrap(line)) < TitleMinLen THEN None
            ELSE IF Len(Unwrap(line)) <= TitleMaxLen THEN line
            ELSE Some(SubSeq(Unwrap(line), 1, TitleCutLen) \o Ellipsis)
    IN  Of(FirstNonBlank(Lines(content)))

\* ------------------------------------------------------------------
\* C30  For every content, both title derivations (the one of the note and
\* the one of the changed handler) give the same candidate: none when the
\* first non-blank line, trimmed, is shorter than 3 characters, the line
\* itself up to 50 characters, and otherwise its first 47 characters and
\* "..."; a candidate has between 3 and 50 characters.
C30_CandidateTitle ==
    IsCall("title") =>
        LET note == Unwrap(ret).note
            ui == Unwrap(ret).ui
        IN  /\ ~note.panic /\ ~ui.panic
            /\ note.title = ui.title
            /\ note.title = CandidateByChars(Unwrap(call).content)
            /\ IsSome(note.title) =>
                  Len(Unwrap(note.title)) \in TitleMinLen..TitleMaxLen

\* ------------------------------------------------------------------
\* C29  After New note created a note, and after a rename dialog renamed
\* one, the list is rebuilt and the row of the new title is the selected
\* row.
C29_NewRowSelected ==
    [][/\ (last'.ev = "new" /\ OpLogged(log', "create", TRUE) /\ ~panicked')
          => \E i \in 1..Len(log') :
                /\ log'[i].op = "create"
                /\ selected' = Some(FileStem(log'[i].path))
       /\ (last'.ev = "rename" /\ OpLogged(log', "rename", TRUE) /\ ~panicked')
          => selected' = last'.title]_vars

\* the store call i of an event's log is a save of a file that is there when
\* the save runs: it was there when the event began and no earlier call of
\* the event removed or moved it
SaveOfExisting(before, l, i) ==
    /\ l[i].path \in DOMAIN before
    /\ \A j \in 1..(i - 1) :
          ~(l[j].op \in {"delete", "rename"} /\ l[j].ok /\ l[j].path = l[i].path)

\* ------------------------------------------------------------------
\* C31  Saves never create notes: the set of note files changes only by a
\* New note that adds one file, a confirmed Delete that removes one and a
\* Rename that moves one; and every save of a flush or of an auto-save
\* callback writes a file that exists when the save runs, so a file that was
\* deleted or renamed away is not created again by a later save.
C31_SavesNeverCreate ==
    [][/\ \A i \in 1..Len(log') :
             log'[i].op = "save" => SaveOfExisting(files, log', i)
       /\ DOMAIN files' # DOMAIN files
             => \/ /\ last'.ev = "new"
                   /\ \E p \in DOMAIN files' \ DOMAIN files :
                         DOMAIN files' = DOMAIN files \cup {p}
                \/ /\ last'.ev = "delete"
                   /\ \E p \in DOMAIN files \ DOMAIN files' :
                         DOMAIN files' = DOMAIN files \ {p}
                \/ /\ last'.ev = "rename"
                   /\ \E p \in DOMAIN files \ DOMAIN files',
                         q \in DOMAIN files' \ DOMAIN files :
                         DOMAIN files' = (DOMAIN files \ {p}) \cup {q}]_vars

\* ------------------------------------------------------------------
\* C32  Clean means persisted: whenever a note is active and its has_changes
\* flag is not set, the file of the active note holds the content of the
\* working copy.
C32_CleanMeansPersisted ==
    (IsSome(session) /\ ~Unwrap(session).has_changes)
        => /\ Unwrap(session).path \in DOMAIN files
           /\ files[Unwrap(session).path].content = Unwrap(session).note.content

\* ------------------------------------------------------------------
\* C33  Stored handle is live: whenever the session holds the handle of an
\* auto-save source, that source is still attached (it has neither run nor
\* been removed); and after an auto-save callback has run, whether its save
\* succeeded or failed, the session does not hold the handle of the source
\* that ran.
C33_StoredHandleLive ==
    /\ [](~StaleHandle)
    /\ [][(last'.ev = "fire" /\ IsSome(session'))
          => Unwrap(session').auto_save_source_id # Some(NextTimer.id)]_vars

\* ------------------------------------------------------------------
\* C34  No conflicting borrow of the session cell: no handler asks for a
\* mutable borrow of the cell while another borrow is outstanding, so no
\* handler panics on a borrow.  A handler that starts while the session
\* holds no handle of a detached source has no other way to panic, so it
\* does not panic; and between handlers no borrow is outstanding.
C34_NoBorrowConflict ==
    /\ [](borrow = "none")
    /\ [][(~StaleHandle) => ~panicked']_vars

\* ------------------------------------------------------------------
\* C35  An auto-save callback, with the list refresh and the reselection it
\* makes after a successful save, keeps the editing context: the same note
\* is active after it, with the same working-copy content, and the editor
\* text is the same; and a callback whose snapshot is of another path than
\* the active note's leaves the session exactly as it was.
C35_FireKeepsContext ==
    [][(last'.ev = "fire")
       => /\ IsSome(session') = IsSome(session)
          /\ IsSome(session)
                => /\ IsSome(session')
                   /\ Unwrap(session').path = Unwrap(session).path
                   /\ Unwrap(session').title = Unwrap(session).title
                   /\ Unwrap(session').note.content = Unwrap(session).note.content
          /\ editor' = editor
          /\ (IsSome(session) /\ Unwrap(session).path # NextTimer.note.path)
                => session' = session]_vars

\* ------------------------------------------------------------------
\* C36  Session identity fields agree: whenever a note is active, the title
\* of the session is the title of its working copy, the path of the session
\* is the path of its working copy, and that path is the notes directory
\* joined with "<title>.md"; a row selection, New note and a rename keep it
\* so.
C36_IdentityAgrees ==
    IsSome(session)
        => /\ Unwrap(session).title = Unwrap(session).note.title
           /\ Unwrap(session).path = Unwrap(session).note.path
           /\ Unwrap(session).path = PathOf(Unwrap(session).title)

\* the note New note created was renamed while it was active: the session
\* and its working copy both carry the new title and path
C36_Witness ==
    /\ last.ev = "rename"
    /\ OpLogged(log, "rename", TRUE)
    /\ IsSome(session)
    /\ Unwrap(session).title = TitleB
    /\ Unwrap(session).note.title = TitleB
    /\ Unwrap(session).note.path = PathOf(TitleB)
    /\ Unwrap(session).path = <<"b", ".", "m", "d">>
    /\ PathOf(NumberedTitle(1)) \notin DOMAIN files

====
